---- MODULE Spec2Model ----
(***************************************************************************)
(* Model of the Tarot-Jeong backend's token authorizer                     *)
(* (src/authorizer/app.py): lambda_handler, get_signing_key and            *)
(* generate_policy, with the process-lifetime cache jwks_clients.          *)
(*                                                                         *)
(* Python values are tagged records: [t |-> "absent"] for a missing key,   *)
(* [t |-> "None"] for null, [t |-> "str", v |-> ...] for a string and      *)
(* [t |-> "dict", ...] for a mapping.  A string that the code splits,      *)
(* strips or slices is a sequence: a method ARN is a sequence of the       *)
(* separators ":" and "/" and separator-free words; a header value is a    *)
(* sequence of character elements [c |-> ch], in which one element         *)
(* [c |-> "jwt", jwt |-> claims] stands for the compact serialization of   *)
(* a JSON Web Token with those header fields, claims and signature.        *)
(***************************************************************************)
EXTENDS Integers, Sequences, FiniteSets

\* ---------------------------------------------------------------- bounds

\* Issuers are 1..NumIssuers, key identifiers 1..NumKids.
NumIssuers == 2
NumKids == 2
\* Most whitespace characters put on either side of a header value.
MaxPad == 2
\* Invocations that run at the same time are 1..NumThreads.
NumThreads == 2
\* The credit of a row of public.users starts in 0..MaxCredit.
MaxCredit == 4
\* At most MaxRows rows are inserted into posts, comments and shared_readings.
MaxRows == 1

Issuers == 1..NumIssuers
Kids == 1..NumKids
Threads == 1..NumThreads

\* ---------------------------------------------------------- Python values

Absent == [t |-> "absent"]
PyNone == [t |-> "None"]
Str(s) == [t |-> "str", v |-> s]

\* bool(x) of a value that is None or a string held as a sequence.
Truthy(x) == x.t = "str" /\ x.v # <<>>

\* bool(x) of a claim that is absent, None, or a string held as an atom.
TruthyAtom(x) == x.t = "str" /\ x.v # ""

\* dict.get(key) with no default: a missing key reads as None.
Get(x) == IF x.t = "absent" THEN PyNone ELSE x

\* str(x or '') of an optional string claim.
StrOrEmpty(x) == IF TruthyAtom(x) THEN x.v ELSE ""

\* -------------------------------------------------------------- str.split

IndexOf(s, sep) ==
    IF \E i \in 1..Len(s) : s[i] = sep
    THEN CHOOSE i \in 1..Len(s) : s[i] = sep /\ \A j \in 1..(i - 1) : s[j] # sep
    ELSE 0

RECURSIVE Split(_, _)
\* s.split(sep): the parts between the separators, empty parts kept.
Split(s, sep) ==
    LET i == IndexOf(s, sep) IN
    IF i = 0 THEN <<s>>
    ELSE <<SubSeq(s, 1, i - 1)>> \o Split(SubSeq(s, i + 1, Len(s)), sep)

\* ------------------------------------------------- step 1: resource ARN

ArnPrefix == <<"arn", ":", "aws", ":", "execute-api", ":">>

\* f"arn:aws:execute-api:{region}:{account_id}:{api_id}/{stage}/*"
WildcardArn(region, account_id, api_id, stage) ==
    ArnPrefix \o region \o <<":">> \o account_id \o <<":">>
              \o api_id \o <<"/">> \o stage \o <<"/", "*">>

\* The except branch: event.get("methodArn", "*").
FallbackResource(methodArn) ==
    IF methodArn.t = "absent" THEN Str(<<"*">>) ELSE methodArn

\* The try block that builds the stage-wide wildcard ARN.
DeriveResource(methodArn) ==
    LET method_arn == IF methodArn.t = "absent" THEN Str(<<>>) ELSE methodArn IN
    IF method_arn.t # "str" THEN FallbackResource(methodArn)   \* AttributeError
    ELSE
      LET arn_parts == Split(method_arn.v, ":") IN
      IF Len(arn_parts) < 6 THEN FallbackResource(methodArn)   \* IndexError
      ELSE
        LET api_gateway_arn_parts == Split(arn_parts[6], "/") IN
        IF Len(api_gateway_arn_parts) < 2
        THEN FallbackResource(methodArn)                       \* IndexError
        ELSE Str(WildcardArn(arn_parts[4], arn_parts[5],
                             api_gateway_arn_parts[1], api_gateway_arn_parts[2]))

\* -------------------------------------------------------- generate_policy

generate_policy(principal_id, effect, resource, context) ==
    [principalId |-> principal_id,
     Effect      |-> effect,
     Resource    |-> resource,
     context     |-> context]

\* ------------------------------------------- steps 2-3: token extraction

Ch(x) == [c |-> x]
JwtEl(j) == [c |-> "jwt", jwt |-> j]

\* Mutant: the prefix is compared without lower().
LowerChar_Identity(x) == x

\* str.lower() on the letters the model's strings are made of.
LowerChar(x) ==
    CASE x = "B" -> "b"
      [] x = "E" -> "e"
      [] x = "A" -> "a"
      [] x = "R" -> "r"
      [] OTHER   -> x

Lower(s) == [i \in 1..Len(s) |-> IF s[i].c = "jwt" THEN s[i] ELSE Ch(LowerChar(s[i].c))]

\* Mutant: the header name is compared as it is spelled.
LowerName_Exact(k) == k

\* key.lower() of a header name.
LowerName(k) ==
    CASE k = "Authorization" -> "authorization"
      [] k = "AUTHORIZATION" -> "authorization"
      [] k = "Host"          -> "host"
      [] OTHER               -> k

RECURSIVE LStrip(_)
LStrip(s) == IF s # <<>> /\ s[1].c = " " THEN LStrip(Tail(s)) ELSE s

RECURSIVE RStrip(_)
RStrip(s) ==
    IF s # <<>> /\ s[Len(s)].c = " " THEN RStrip(SubSeq(s, 1, Len(s) - 1)) ELSE s

\* token.strip()
Strip(s) == RStrip(LStrip(s))

BearerPrefix == <<Ch("b"), Ch("e"), Ch("a"), Ch("r"), Ch("e"), Ch("r"), Ch(" ")>>

\* s.startswith(p)
StartsWith(s, p) == Len(s) >= Len(p) /\ SubSeq(s, 1, Len(p)) = p

\* Lines 88-90: strip, then drop a case-insensitive "Bearer " prefix.
Normalize(token) ==
    LET t == Strip(token) IN
    IF StartsWith(Lower(t), BearerPrefix) THEN SubSeq(t, 8, Len(t)) ELSE t

\* next((value for key, value in headers.items()
\*       if key.lower() == "authorization"), None): headers is the sequence
\* of the mapping's entries in iteration order.
FindAuthHeader(entries) ==
    LET hits == {i \in 1..Len(entries) : LowerName(entries[i].key) = "authorization"} IN
    IF hits = {} THEN PyNone
    ELSE entries[CHOOSE i \in hits : \A j \in hits : i <= j].value

\* auth_header or event.get('authorizationToken')
ExtractToken(entries, authorizationToken) ==
    LET auth_header == FindAuthHeader(entries) IN
    IF Truthy(auth_header) THEN auth_header ELSE Get(authorizationToken)

\* ------------------------------------------------------------ exceptions

Exc(class, msg) == [exc |-> class, msg |-> msg]

\* The classes that `except PyJWTError` catches (PyJWTError and its
\* subclasses); anything else falls to `except Exception`.
PyJWTErrors ==
    {"PyJWTError", "DecodeError", "InvalidAlgorithmError", "InvalidSignatureError",
     "ExpiredSignatureError", "MissingRequiredClaimError", "InvalidAudienceError",
     "PyJWKClientError", "PyJWKClientConnectionError"}

MsgTokenMissing == "Authorization token missing"
\* The messages of lines 23 and 29 (Korean in the source), in English.
MsgNoKid == "no 'kid' in token header"
MsgNoIss == "no 'iss' in token payload"
MsgInvalidClaims == "Invalid token claims"
MsgInternal == "Internal server error"

\* ------------------------------------------------- the key-discovery side

\* The key identifiers issuer i publishes at {i}/.well-known/jwks.json.
Published(i) == {k \in Kids : k <= i}

\* The key material issuer i publishes under kid k.
KeyOf(i, k) == <<i, k>>

NoKey == <<0, 0>>

\* PyJWKClient(jwks_url) with jwks_url = f"{issuer}/.well-known/jwks.json"
PyJWKClient(issuer) == [uri |-> [issuer |-> issuer, path |-> "/.well-known/jwks.json"]]

\* jwks_client.get_signing_key_from_jwt(token): the key set is read from the
\* client's URL (up: the issuers whose endpoint answers) and searched for
\* the token's kid.
get_signing_key_from_jwt(client, kid, up) ==
    LET i == client.uri.issuer IN
    IF i \notin up
    THEN [ok |-> FALSE, key |-> NoKey,
          err |-> Exc("PyJWKClientConnectionError", "Fail to fetch data from the url")]
    ELSE IF kid.t # "str" \/ kid.v \notin Published(i)
    THEN [ok |-> FALSE, key |-> NoKey,
          err |-> Exc("PyJWKClientError", "Unable to find a signing key that matches")]
    ELSE [ok |-> TRUE, key |-> KeyOf(i, kid.v), err |-> Exc("", "")]

\* ------------------------------------------------------- token decoding

\* A string is a compact serialization only if it is exactly one token;
\* anything else (empty, stray characters, a second prefix) does not decode.
Decodable(token) == Len(token) = 1 /\ token[1].c = "jwt"

NotEnoughSegments == Exc("DecodeError", "Not enough segments")

\* ------------------------------------------------------- get_signing_key

\* Mutant: the kid check is left out.
MissingKid_Never(kid) == FALSE

\* Line 22: if not kid.
MissingKid(kid) == kid.t # "str"

\* Line 28: if not issuer.
MissingIss(issuer) == issuer.t # "str"

KeyFail(err, clients, steps) ==
    [ok |-> FALSE, key |-> NoKey, err |-> err, clients |-> clients, steps |-> steps]

\* Lines 18-45.  clients is jwks_clients before the call; the result carries
\* jwks_clients after it and the steps the call went through.
get_signing_key(token, clients, up) ==
    IF ~Decodable(token)                   \* jwt.get_unverified_header raises
    THEN KeyFail(NotEnoughSegments, clients, <<"header">>)
    ELSE
      LET j == token[1].jwt
          kid == Get(j.kid)
      IN
      IF MissingKid(kid)
      THEN KeyFail(Exc("PyJWTError", MsgNoKid), clients, <<"header">>)
      ELSE
        LET issuer == Get(j.iss) IN
        IF MissingIss(issuer)
        THEN KeyFail(Exc("PyJWTError", MsgNoIss), clients, <<"header", "payload">>)
        ELSE
          LET miss == issuer.v \notin DOMAIN clients
              clients2 == IF miss
                          THEN [i \in DOMAIN clients \cup {issuer.v} |->
                                  IF i = issuer.v THEN PyJWKClient(issuer.v)
                                  ELSE clients[i]]
                          ELSE clients
              steps == <<"header", "payload">>
                         \o (IF miss THEN <<"client">> ELSE <<>>) \o <<"fetch">>
              r == get_signing_key_from_jwt(clients2[issuer.v], kid, up)
          IN
          IF ~r.ok THEN KeyFail(r.err, clients2, steps)
          ELSE [ok |-> TRUE, key |-> r.key, err |-> r.err,
                clients |-> clients2, steps |-> steps]

\* ------------------------------------------------------------ jwt.decode

\* Mutant: the signature is not verified.
SignatureOk_Unchecked(alg, key, sig) == TRUE

\* Whether the signature sig verifies under algorithm alg with key: "none"
\* carries no signature to check, HS256 takes the key's bytes as the shared
\* secret, ES256 needs the signature of the matching private key.
SignatureOk(alg, key, sig) ==
    CASE alg = "none"  -> TRUE
      [] alg = "HS256" -> sig.alg = "HS256" /\ sig.key = key
      [] alg = "ES256" -> sig.alg = "ES256" /\ sig.key = key
      [] OTHER         -> FALSE

\* jwt.decode(token, key, algorithms=..., options={"verify_aud": True},
\*            audience=...): algorithm allow-list, signature, exp, aud.
jwt_decode(j, key, algorithms, audience) ==
    IF \A n \in 1..Len(algorithms) : algorithms[n] # j.alg
    THEN [ok |-> FALSE,
          err |-> Exc("InvalidAlgorithmError", "The specified alg value is not allowed")]
    ELSE IF ~SignatureOk(j.alg, key, j.sig)
    THEN [ok |-> FALSE,
          err |-> Exc("InvalidSignatureError", "Signature verification failed")]
    ELSE IF j.expired
    THEN [ok |-> FALSE, err |-> Exc("ExpiredSignatureError", "Signature has expired")]
    ELSE IF j.aud.t = "absent"
    THEN [ok |-> FALSE,
          err |-> Exc("MissingRequiredClaimError", "Token is missing the aud claim")]
    ELSE IF j.aud # Str(audience)
    THEN [ok |-> FALSE, err |-> Exc("InvalidAudienceError", "Audience doesn't match")]
    ELSE [ok |-> TRUE, err |-> Exc("", "")]

\* --------------------------------------------------------- lambda_handler

Return(policy, clients, steps) ==
    [kind |-> "return", policy |-> policy, clients |-> clients, steps |-> steps]

\* The outcome with the value the local variable token held at the try block.
WithToken(out, token) ==
    IF out.kind = "return"
    THEN [kind |-> "return", policy |-> out.policy, clients |-> out.clients,
          steps |-> out.steps, token |-> token]
    ELSE [kind |-> "raise", exc |-> out.exc, clients |-> out.clients,
          steps |-> out.steps, token |-> token]

\* An exception that leaves lambda_handler.
Raise(exc, clients, steps) ==
    [kind |-> "raise", exc |-> exc, clients |-> clients, steps |-> steps]

EmptyDict == [t |-> "dict", full_name |-> Absent, avatar_url |-> Absent]

\* Lines 128-133: a PyJWTError is answered with its message, any other
\* exception with "Internal server error".
Deny(err, resource, clients, steps) ==
    IF err.exc \in PyJWTErrors
    THEN Return(generate_policy(Str("user"), "Deny", resource, [error |-> err.msg]),
                clients, steps)
    ELSE Return(generate_policy(Str("user"), "Deny", resource, [error |-> MsgInternal]),
                clients, steps)

\* Mutant: the sub check is left out.
MissingSub_Never(principal_id) == FALSE

\* Line 107: if not principal_id.
MissingSub(principal_id) == ~TruthyAtom(principal_id)

\* Lines 106-126: the claims of the verified payload j.
BuildDecision(j, resource, clients, steps) ==
    LET principal_id == Get(j.sub) IN
    IF MissingSub(principal_id)
    THEN Deny(Exc("PyJWTError", MsgInvalidClaims), resource, clients, steps)
    ELSE
      LET user_metadata == IF j.user_metadata.t = "absent" THEN EmptyDict
                           ELSE j.user_metadata
      IN
      IF user_metadata.t # "dict"          \* None.get(...): AttributeError
      THEN Deny(Exc("AttributeError", "'NoneType' object has no attribute 'get'"),
                resource, clients, steps)
      ELSE
        LET full_name == Get(user_metadata.full_name)
            avatar_url == Get(user_metadata.avatar_url)
            authorizer_context ==
              [user_id           |-> StrOrEmpty(principal_id),
               email             |-> StrOrEmpty(Get(j.email)),
               role              |-> StrOrEmpty(Get(j.role)),
               full_name         |-> StrOrEmpty(full_name),
               profile_image_url |-> StrOrEmpty(avatar_url)]
        IN Return(generate_policy(principal_id, "Allow", resource, authorizer_context),
                  clients, steps)

\* Mutant: the verification accepts whatever algorithm the header names.
Algorithms_Negotiated == <<"ES256", "HS256", "none">>

\* The algorithms the verification accepts (line 101) and the audience it
\* expects (line 103).
Algorithms == <<"ES256">>
Audience == "authenticated"

\* Lines 92-133: the try block on the normalized token.
VerifyToken(token, resource, clients, up) ==
    LET k == get_signing_key(token, clients, up) IN
    IF ~k.ok THEN Deny(k.err, resource, k.clients, k.steps)
    ELSE
      LET j == token[1].jwt
          d == jwt_decode(j, k.key, Algorithms, Audience)
          steps == k.steps \o <<"verify">>
      IN
      IF ~d.ok THEN Deny(d.err, resource, k.clients, steps)
      ELSE BuildDecision(j, resource, k.clients, steps)

\* Lines 47-133.  event = [methodArn, headers, authorizationToken].
lambda_handler(event, clients, up) ==
    LET resource == DeriveResource(event.methodArn) IN
    IF event.headers.t = "None"            \* None.items(): AttributeError
    THEN WithToken(Raise("AttributeError", clients, <<>>), <<>>)
    ELSE
      LET entries == IF event.headers.t = "absent" THEN <<>> ELSE event.headers.v
          token == ExtractToken(entries, event.authorizationToken)
      IN
      IF ~Truthy(token)
      THEN WithToken(Return(generate_policy(Str("user"), "Deny", resource,
                                            [error |-> MsgTokenMissing]),
                            clients, <<>>), <<>>)
      ELSE WithToken(VerifyToken(Normalize(token.v), resource, clients, up),
                     Normalize(token.v))

\* ------------------------------------------------------------- the inputs

Algs == {"ES256", "HS256", "none"}

PublishedKeys == UNION {{KeyOf(i, k) : k \in Published(i)} : i \in Issuers}

\* Signatures: by the private key of a published key, by a private key no
\* issuer publishes, an HMAC keyed with a published public key, or none.
Signatures ==
    {[alg |-> "ES256", key |-> ky] : ky \in PublishedKeys \cup {NoKey}}
      \cup {[alg |-> "HS256", key |-> KeyOf(1, 1)], [alg |-> "none", key |-> NoKey]}

Optional(S) == {Absent} \cup {Str(x) : x \in S}
Nullable(S) == {Absent, PyNone} \cup {Str(x) : x \in S}

\* Tokens over every combination of algorithm, kid, iss and signature, with
\* the claims of a valid token.
StructTokens ==
    {[alg |-> a, kid |-> k, iss |-> i, aud |-> Str("authenticated"),
      sub |-> Str("user-123"), expired |-> FALSE, email |-> Str("a@b.com"),
      role |-> Absent, user_metadata |-> Absent, sig |-> sg] :
        a \in Algs, k \in Optional(Kids), i \in Optional(Issuers), sg \in Signatures}

\* A token of issuer 1 that is valid in every respect.
GoodToken ==
    [alg |-> "ES256", kid |-> Str(1), iss |-> Str(1), aud |-> Str("authenticated"),
     sub |-> Str("user-123"), expired |-> FALSE, email |-> Str("a@b.com"),
     role |-> Absent, user_metadata |-> Absent,
     sig |-> [alg |-> "ES256", key |-> KeyOf(1, 1)]]

Metadata ==
    {Absent, PyNone}
      \cup {[t |-> "dict", full_name |-> f, avatar_url |-> u] :
              f \in Nullable({"Jeong"}), u \in Nullable({"https://img/1"})}

\* Valid tokens over every combination of the optional claims.
ProfileTokens ==
    {[GoodToken EXCEPT !.email = e, !.role = r, !.user_metadata = m] :
        e \in Nullable({"a@b.com", ""}), r \in Nullable({"authenticated"}),
        m \in Metadata}

\* Tokens of issuer 1 over every algorithm, aud and sub, expired or not,
\* with the issuer's signature, a forged one, an HMAC or none.
ClaimTokens ==
    {[GoodToken EXCEPT !.alg = a, !.aud = au, !.sub = su, !.expired = x, !.sig = sg] :
        a \in Algs, au \in Optional({"authenticated", "other"}),
        su \in Optional({"user-123", ""}), x \in BOOLEAN,
        sg \in {[alg |-> "ES256", key |-> KeyOf(1, 1)], [alg |-> "ES256", key |-> NoKey],
                [alg |-> "HS256", key |-> KeyOf(1, 1)], [alg |-> "none", key |-> NoKey]}}

Tokens == StructTokens \cup ProfileTokens \cup ClaimTokens

RECURSIVE Spaces(_)
Spaces(n) == IF n = 0 THEN <<>> ELSE <<Ch(" ")>> \o Spaces(n - 1)

Word(w) == [i \in 1..Len(w) |-> Ch(w[i])]

\* What may stand before the token in a header value.
Prefixes ==
    {<<>>,
     Word(<<"B", "e", "a", "r", "e", "r", " ">>),
     Word(<<"b", "e", "a", "r", "e", "r", " ">>),
     Word(<<"B", "E", "A", "R", "E", "R", " ">>),
     Word(<<"B", "e", "a", "r", "e", "r">>),
     Word(<<"B", "e", "a", "r", "e", "r", " ", " ">>),
     Word(<<"B", "e", "a", "r", "e", "r", " ", "B", "e", "a", "r", "e", "r", " ">>)}

\* The tokens of the header inputs: two valid ones of different subjects and
\* one with a forged signature; a header value may also hold a string that
\* does not decode, or nothing.
OtherToken == [GoodToken EXCEPT !.sub = Str("user-456")]
ForgedToken == [GoodToken EXCEPT !.sig = [alg |-> "ES256", key |-> NoKey]]
Bodies == {<<JwtEl(GoodToken)>>, <<JwtEl(ForgedToken)>>, <<Ch("x")>>, <<>>}

RawValues ==
    {Spaces(l) \o p \o b \o Spaces(r) :
        l \in 0..MaxPad, p \in Prefixes, b \in Bodies, r \in 0..MaxPad}

Bearer(j) == Str(Word(<<"B", "e", "a", "r", "e", "r", " ">>) \o <<JwtEl(j)>>)

GoodArn ==
    <<"arn", ":", "aws", ":", "execute-api", ":", "us-east-1", ":", "123456789012", ":",
      "abcxyz", "/", "prod", "/", "GET", "/", "posts">>

\* Method ARNs: absent, null, every prefix of a well-formed one, one with a
\* colon in its path, and parseable strings that are not execute-api ARNs.
MethodArns ==
    {Absent, PyNone}
      \cup {Str(SubSeq(GoodArn, 1, n)) : n \in 0..Len(GoodArn)}
      \cup {Str(GoodArn \o <<":", "x">>),
            Str(<<"not-an-arn">>),
            Str(<<"a", ":", "b", ":", "c", ":", "d", ":", "e", ":", "f", "/", "g">>),
            Str(<<":", ":", ":", ":", ":", "/">>)}

AuthNames == {"Authorization", "authorization", "AUTHORIZATION"}

Dict(entries) == [t |-> "dict", v |-> entries]
Entry(k, v) == [key |-> k, value |-> Str(v)]

SampleValues == {Bearer(GoodToken).v, Bearer(OtherToken).v, <<>>}

\* Header mappings: absent, null, without an authorization entry, with one
\* under any casing, and with two of different casing.
HeaderShapes ==
    {Absent, PyNone, Dict(<<>>), Dict(<<Entry("Host", <<Ch("x")>>)>>)}
      \cup {Dict(<<Entry(n, v)>>) : n \in AuthNames, v \in SampleValues}
      \cup {Dict(<<Entry("Host", <<Ch("x")>>), Entry(n, v)>>) : n \in AuthNames, v \in SampleValues}
      \cup {Dict(<<Entry(q[1], q[3]), Entry(q[2], q[4])>>) :
              q \in {q \in AuthNames \X AuthNames \X SampleValues \X SampleValues :
                       q[1] # q[2] /\ q[3] # q[4]}}

AltTokens == {Absent, Str(<<>>), Bearer(OtherToken), Bearer(ForgedToken)}

Event(arn, headers, alt) ==
    [methodArn |-> arn, headers |-> headers, authorizationToken |-> alt]

\* The events: every token behind a plain Bearer header, every raw value in
\* a header and (evenly padded) in the alternate field, every header shape
\* with every alternate field, every method ARN.
Events ==
    {Event(Str(GoodArn), Dict(<<Entry("Authorization", Bearer(j).v)>>), Absent) : j \in Tokens}
      \cup {Event(Str(GoodArn), Dict(<<Entry("Authorization", v)>>), Absent) : v \in RawValues}
      \cup {Event(Str(GoodArn), Absent, Str(Spaces(n) \o p \o b \o Spaces(n))) :
              n \in 0..MaxPad, p \in Prefixes, b \in Bodies}
      \cup {Event(Str(GoodArn), h, a) : h \in HeaderShapes, a \in AltTokens}
      \cup {Event(m, h, Absent) :
              m \in MethodArns,
              h \in {Absent, PyNone, Dict(<<Entry("Authorization", Bearer(GoodToken).v)>>),
                     Dict(<<Entry("Authorization", Bearer(ForgedToken).v)>>)}}

\* ------------------------------------------------------------ the machine

VARIABLES
    jwks_clients,   \* the module-level cache: issuer -> PyJWKClient
    reachable,      \* the issuers whose key-discovery endpoint answers
    last,           \* the invocation in progress: its event, the cache and
                    \* the endpoints it started from, and its outcome
    published,      \* issuer -> the key identifiers its endpoint lists now
    jwk_set_cache,  \* client id -> the key set that client holds
    previous,       \* the (issuer, kid) the invocation before resolved, or
                    \* (issuer, 0) if its fetch for the issuer failed
    threads,        \* thread -> its place in an invocation and its locals
    users,          \* public.users: user id -> credit, or no row
    calls,          \* invocation -> its place in a handler behind the
                    \* authorizer and its locals
    rows,           \* the rows inserted into posts, comments and
                    \* shared_readings, in order; a row's id is its place
    queue           \* the messages sent to the comment queue, in order

authVars == <<jwks_clients, reachable, last>>
\* The state of the client objects and of the issuers' key sets.
keyVars == <<published, jwk_set_cache, previous>>

\* The database and the queue behind the other handlers, and their
\* invocations.
appVars == <<users, calls, rows, queue>>

vars == <<authVars, keyVars, threads, appVars>>

Idle == [kind |-> "idle"]

\* A client that holds no key set, and one that holds the set S.
NoSet == [held |-> FALSE, keys |-> {}]
Held(S) == [held |-> TRUE, keys |-> S]

NoPair == <<0, 0>>

\* A thread between invocations.
Waiting == [pc |-> "idle"]

\* A user id without a row in public.users.
NoRow == [t |-> "norow"]

UserIds == {"user-123", "user-456"}

\* The process after the module was imported: no client, no invocation.
ColdStart ==
    /\ jwks_clients = <<>>
    /\ last = Idle
    /\ jwk_set_cache = <<>>
    /\ previous = NoPair
    /\ threads = [t \in Threads |-> Waiting]
    /\ calls = [t \in Threads |-> Waiting]
    /\ rows = <<>>
    /\ queue = <<>>

Init ==
    /\ ColdStart
    /\ reachable = Issuers
    /\ published = [i \in Issuers |-> Published(i)]
    /\ users = [u \in UserIds |-> NoRow]

\* One invocation of lambda_handler, from its event to its return or raise.
Invoke ==
    /\ last.kind = "idle"
    /\ \E ev \in Events :
         \E out \in {lambda_handler(ev, jwks_clients, reachable)} :
           /\ jwks_clients' = out.clients
           /\ last' = [kind |-> out.kind, event |-> ev, before |-> jwks_clients,
                       up |-> reachable, out |-> out]
    /\ UNCHANGED <<reachable, keyVars, threads, appVars>>

\* The outcome is handed to the caller; the process waits for the next event.
Respond ==
    /\ last.kind # "idle"
    /\ last' = Idle
    /\ UNCHANGED <<jwks_clients, reachable, keyVars, threads, appVars>>

\* An issuer's key-discovery endpoint stops or starts answering.
EndpointDown(i) ==
    /\ last.kind = "idle"
    /\ i \in reachable
    /\ reachable' = reachable \ {i}
    /\ UNCHANGED <<jwks_clients, last, keyVars, threads, appVars>>

EndpointUp(i) ==
    /\ last.kind = "idle"
    /\ i \notin reachable
    /\ reachable' = reachable \cup {i}
    /\ UNCHANGED <<jwks_clients, last, keyVars, threads, appVars>>

Next ==
    \/ Invoke
    \/ Respond
    \/ \E i \in Issuers : EndpointDown(i)
    \/ \E i \in Issuers : EndpointUp(i)

Spec == Init /\ [][Next]_vars

\* ============================================================ the claims

Returned == last.kind = "return"
Finished == last.kind \in {"return", "raise"}

\* What the caller of an outcome sees: the policy, or the exception.
Decision(out) == IF out.kind = "return" THEN out.policy ELSE [raised |-> out.exc]

LastDecision == Decision(last.out)

\* The outcome the event ev gets from where the last invocation started.
Rerun(ev) == Decision(lambda_handler(ev, last.before, last.up))

\* The last event brought a decodable token to the try block.
TokenReached == Returned /\ Decodable(last.out.token)

LastJwt == last.out.token[1].jwt

\* The key set of the token's issuer answers and lists the token's kid.
KeyResolvable(j, up) ==
    /\ j.kid.t = "str" /\ j.iss.t = "str"
    /\ j.iss.v \in up
    /\ j.kid.v \in Published(j.iss.v)

\* The token carries the ES256 signature of the key resolved for (iss, kid).
SignedByResolvedKey(j) == j.sig = [alg |-> "ES256", key |-> KeyOf(j.iss.v, j.kid.v)]

\* C1: Effect=Allow is returned only for a token whose signature verified
\* against the key resolved for its (iss, kid), whose aud is "authenticated"
\* and whose payload carries a non-empty sub; every other token gets Deny.
C1_AllowOnlyVerified ==
    Returned =>
      /\ last.out.policy.Effect \in {"Allow", "Deny"}
      /\ last.out.policy.Effect = "Allow" =>
           /\ TokenReached
           /\ KeyResolvable(LastJwt, last.up)
           /\ SignedByResolvedKey(LastJwt)
           /\ LastJwt.aud = Str("authenticated")
           /\ LastJwt.sub.t = "str" /\ LastJwt.sub.v # ""

\* An Allow for a token of issuer 2 under its second key.
C1_Witness ==
    /\ Returned
    /\ last.out.policy.Effect = "Allow"
    /\ LastJwt.iss = Str(2) /\ LastJwt.kid = Str(2)

\* C2: for every event lambda_handler returns a policy and never raises, and
\* every Deny carries the resource of step 1 and a non-empty context.error.
C2_NeverRaises ==
    Finished =>
      /\ last.kind = "return"
      /\ last.out.policy.Effect = "Deny" =>
           /\ last.out.policy.Resource = DeriveResource(last.event.methodArn)
           /\ DOMAIN last.out.policy.context = {"error"}
           /\ last.out.policy.context.error # ""

\* C3: a token whose header names an algorithm other than ES256 is never
\* allowed, whatever key is resolved and whatever the cache holds.
C3_AlgorithmFixed ==
    (TokenReached /\ LastJwt.alg # "ES256") => last.out.policy.Effect = "Deny"

\* An HS256 token whose HMAC is keyed with the resolved public key, valid in
\* every other respect, reached verification and was denied.
C3_Witness ==
    /\ TokenReached
    /\ LastJwt.alg = "HS256"
    /\ KeyResolvable(LastJwt, last.up)
    /\ LastJwt.sig = [alg |-> "HS256", key |-> KeyOf(LastJwt.iss.v, LastJwt.kid.v)]
    /\ LastJwt.aud = Str("authenticated") /\ LastJwt.sub = Str("user-123")
    /\ last.out.steps = <<"header", "payload", "fetch", "verify">>
    /\ last.out.policy.Effect = "Deny"

\* No authorization entry and no alternate field of the event holds a value.
NoTokenCarried(ev) ==
    /\ ev.headers.t = "dict" =>
         \A n \in 1..Len(ev.headers.v) :
            LowerName(ev.headers.v[n].key) = "authorization" => ~Truthy(ev.headers.v[n].value)
    /\ ~Truthy(Get(ev.authorizationToken))

\* C4: a request that carries no token in an authorization header or in
\* authorizationToken is denied with principalId "user" and context.error
\* "Authorization token missing", without any key resolution.
C4_MissingTokenDenied ==
    (Finished /\ NoTokenCarried(last.event)) =>
      /\ last.kind = "return"
      /\ last.out.policy.Effect = "Deny"
      /\ last.out.policy.principalId = Str("user")
      /\ last.out.policy.context = [error |-> MsgTokenMissing]
      /\ last.out.steps = <<>>
      /\ jwks_clients = last.before

\* The token passes jwt.decode under the key resolved for it.
PassesVerification(j, up) ==
    /\ KeyResolvable(j, up)
    /\ j.alg = "ES256"
    /\ SignedByResolvedKey(j)
    /\ ~j.expired
    /\ j.aud = Str("authenticated")

FullyValid(j, up) == PassesVerification(j, up) /\ j.sub.t = "str" /\ j.sub.v # ""

\* An optional claim as a string: absent and null read as "".
OptStr(x) == IF x.t = "str" THEN x.v ELSE ""

MetaField(j, f) == IF j.user_metadata.t = "dict" THEN OptStr(j.user_metadata[f]) ELSE ""

\* C5: every fully valid token, whatever optional claims are present,
\* missing or null, is allowed with principalId = sub and a context of
\* exactly the five string fields, a missing value being "".
C5_ValidTokenAllowed ==
    (TokenReached /\ FullyValid(LastJwt, last.up)) =>
      /\ last.out.policy.Effect = "Allow"
      /\ last.out.policy.principalId = LastJwt.sub
      /\ last.out.policy.context =
           [user_id           |-> LastJwt.sub.v,
            email             |-> OptStr(LastJwt.email),
            role              |-> OptStr(LastJwt.role),
            full_name         |-> MetaField(LastJwt, "full_name"),
            profile_image_url |-> MetaField(LastJwt, "avatar_url")]

\* C6: a token that passes signature and audience verification but has no
\* sub claim is denied with the invalid-token diagnostic and no user context.
C6_NoSubDenied ==
    (TokenReached /\ PassesVerification(LastJwt, last.up) /\ LastJwt.sub.t = "absent") =>
      /\ last.out.policy.Effect = "Deny"
      /\ last.out.policy.principalId = Str("user")
      /\ last.out.policy.context = [error |-> MsgInvalidClaims]

\* A verified token without sub, denied after the verification step.
C6_Witness ==
    /\ TokenReached
    /\ PassesVerification(LastJwt, last.up)
    /\ LastJwt.sub.t = "absent"
    /\ last.out.steps[Len(last.out.steps)] = "verify"
    /\ last.out.policy.Effect = "Deny"

\* The parts of a method ARN string, and the segments of its sixth part.
ColonParts(s) == Split(s, ":")
GatewayParts(s) == Split(ColonParts(s)[6], "/")

\* arn:aws:execute-api:{region}:{account}:{apiId}/{stage}/{method}/{path}
IsExecuteApiArn(s) ==
    /\ StartsWith(s, ArnPrefix)
    /\ Len(ColonParts(s)) >= 6
    /\ Len(GatewayParts(s)) >= 4

Unparseable(s) == Len(ColonParts(s)) < 6 \/ Len(GatewayParts(s)) < 2

\* The string up to its stage segment, followed by "/*".
RECURSIVE NthIndex(_, _, _, _)
\* The index of the n-th sep of s at or after position from.
NthIndex(s, sep, n, from) ==
    IF s[from] = sep
    THEN IF n = 1 THEN from ELSE NthIndex(s, sep, n - 1, from + 1)
    ELSE NthIndex(s, sep, n, from + 1)

StageWildcard(s) ==
    SubSeq(s, 1, NthIndex(s, "/", 2, NthIndex(s, ":", 5, 1)) - 1) \o <<"/", "*">>

\* C7: the Resource is the stage wildcard of a well-formed method ARN, the
\* raw identifier when it cannot be parsed, "*" when it is absent, on Allow
\* and Deny alike, and so always a string.
C7_ResourceDerivation ==
    Returned =>
      LET arn == last.event.methodArn
          Resource == last.out.policy.Resource
      IN
      /\ Resource.t = "str"
      /\ arn.t = "absent" => Resource = Str(<<"*">>)
      /\ (arn.t = "str" /\ Unparseable(arn.v)) => Resource = arn
      /\ (arn.t = "str" /\ IsExecuteApiArn(arn.v)) => Resource = Str(StageWildcard(arn.v))

\* The ways of exchanging the casings of the authorization header name.
Recasings == {f \in [AuthNames -> AuthNames] : \A a, b \in AuthNames : f[a] = f[b] => a = b}

Recase(ev, f) ==
    [ev EXCEPT !.headers.v =
        [n \in 1..Len(ev.headers.v) |->
            IF ev.headers.v[n].key \in AuthNames
            THEN [ev.headers.v[n] EXCEPT !.key = f[ev.headers.v[n].key]]
            ELSE ev.headers.v[n]]]

\* The positions of the authorization entries of a header mapping.
AuthEntries(ev) ==
    {n \in 1..Len(ev.headers.v) : ev.headers.v[n].key \in AuthNames}

FirstAuth(ev) == ev.headers.v[CHOOSE n \in AuthEntries(ev) : \A m \in AuthEntries(ev) : n <= m]

\* C8: the authorization header is found under any casing of its name, its
\* first entry wins, and authorizationToken is used only when no header
\* entry supplies a token: with both, the header's token is the one verified.
C8_HeaderExtraction ==
    (Finished /\ last.event.headers.t = "dict") =>
      LET ev == last.event IN
      /\ AuthEntries(ev) # {} =>
           /\ \A f \in Recasings : Rerun(Recase(ev, f)) = LastDecision
           /\ Rerun([ev EXCEPT !.headers.v = <<FirstAuth(ev)>>]) = LastDecision
      /\ (AuthEntries(ev) # {} /\ Truthy(FirstAuth(ev).value)) =>
           Rerun([ev EXCEPT !.authorizationToken = Absent]) = LastDecision

\* Two authorization entries of different casing and an alternate field,
\* each with another token: the first entry's subject is the one allowed.
C8_Witness ==
    /\ Returned
    /\ last.event.headers.t = "dict"
    /\ Len(last.event.headers.v) = 2
    /\ last.event.headers.v[1] = Entry("AUTHORIZATION", Bearer(GoodToken).v)
    /\ last.event.headers.v[2] = Entry("authorization", Bearer(OtherToken).v)
    /\ last.event.authorizationToken = Bearer(ForgedToken)
    /\ last.out.policy.Effect = "Allow"
    /\ last.out.policy.principalId = GoodToken.sub

\* The four spellings of a bare token X that the normalization equates.
Forms(X) ==
    {X,
     Word(<<"B", "e", "a", "r", "e", "r", " ">>) \o X,
     Word(<<"b", "e", "a", "r", "e", "r", " ">>) \o X,
     Spaces(2) \o Word(<<"B", "E", "A", "R", "E", "R", " ">>) \o X \o Spaces(2)}

\* The value of an event that carries one token, in a header or in the
\* alternate field, and the event with another value in its place.
SingleCarrier(ev) ==
    \/ ev.headers.t = "dict" /\ Len(ev.headers.v) = 1 /\ ev.headers.v[1].key \in AuthNames
         /\ ev.authorizationToken.t = "absent"
    \/ ev.headers.t = "absent" /\ ev.authorizationToken.t = "str"

ValueOf(ev) ==
    IF ev.headers.t = "dict" THEN ev.headers.v[1].value.v ELSE ev.authorizationToken.v

WithValue(ev, v) ==
    IF ev.headers.t = "dict" THEN [ev EXCEPT !.headers.v[1].value.v = v]
    ELSE [ev EXCEPT !.authorizationToken.v = v]

\* The elements of a value that belong to the bare token: a serialized
\* token or a character other than a letter of "Bearer" and a space.
BareAt(v) == {n \in 1..Len(v) : v[n].c \in {"jwt", "x"}}

\* C9: "Bearer X", "bearer X", "  BEARER X  " and "X" get the same decision,
\* for every bare token X (a token that is itself free of spaces and prefix).
C9_BearerForms ==
    (Finished /\ SingleCarrier(last.event) /\ Cardinality(BareAt(ValueOf(last.event))) = 1) =>
      LET v == ValueOf(last.event)
          X == <<v[CHOOSE n \in BareAt(v) : TRUE]>>
      IN v \in Forms(X) =>
           \A f \in Forms(X) : Rerun(WithValue(last.event, f)) = LastDecision

\* "  BEARER X  " with X a valid token: allowed like "X" itself.
C9_Witness ==
    /\ Returned
    /\ SingleCarrier(last.event)
    /\ ValueOf(last.event) =
         Spaces(2) \o Word(<<"B", "E", "A", "R", "E", "R", " ">>)
                   \o <<JwtEl(GoodToken)>> \o Spaces(2)
    /\ last.out.policy.Effect = "Allow"

\* C10: a token without kid, and one without iss, is denied with the
\* malformed-token message of its check; kid is checked before iss, and both
\* before the cache or the key set of any issuer is touched.
C10_IncompleteRejected ==
    TokenReached =>
      /\ LastJwt.kid.t = "absent" =>
           /\ last.out.policy.Effect = "Deny"
           /\ last.out.policy.context = [error |-> MsgNoKid]
           /\ last.out.steps = <<"header">>
           /\ jwks_clients = last.before
      /\ (LastJwt.kid.t = "str" /\ LastJwt.iss.t = "absent") =>
           /\ last.out.policy.Effect = "Deny"
           /\ last.out.policy.context = [error |-> MsgNoIss]
           /\ last.out.steps = <<"header", "payload">>
           /\ jwks_clients = last.before

\* A token with neither kid nor iss: rejected by the kid check.
C10_Witness ==
    /\ TokenReached
    /\ LastJwt.kid.t = "absent" /\ LastJwt.iss.t = "absent"
    /\ last.out.policy.context = [error |-> MsgNoKid]

\* =================================================== the clients' key sets

(***************************************************************************)
(* Line 35 constructs jwt.PyJWKClient with its default arguments and line  *)
(* 40 hands every resolution to that object.  The module itself keeps      *)
(* only the client objects; which key set a client holds is the client's   *)
(* own state: as constructed here (PyJWT 2.4 and later: cache_jwk_set,     *)
(* lifespan 300 s, no per-key cache) a client holds the key set it fetched *)
(* last until the lifespan has passed, fetches when it holds none, and     *)
(* fetches once more when the held set lacks the token's kid.              *)
(* get_signing_key_from_jwt above is this lookup by a client that holds    *)
(* no key set, at an endpoint listing Published.                           *)
(***************************************************************************)

ConnectionError == Exc("PyJWKClientConnectionError", "Fail to fetch data from the url")
NoMatchingKey == Exc("PyJWKClientError", "Unable to find a signing key that matches")

\* A lookup's result: the key or the exception, the set the client holds
\* afterwards, and the fetches of the URL the lookup made, in order.
Found(i, k, set, fetches) ==
    [ok |-> TRUE, key |-> KeyOf(i, k), err |-> Exc("", ""), set |-> set,
     fetches |-> fetches]
NotFound(err, set, fetches) ==
    [ok |-> FALSE, key |-> NoKey, err |-> err, set |-> set, fetches |-> fetches]

\* PyJWKClient.fetch_data: one GET of the client's URL.  What it read
\* replaces the held set; a failed read leaves the client holding none.
fetch_data(i, net) == IF i \in net.up THEN Held(net.pub[i]) ELSE NoSet

\* Mutant: an unknown kid is reported without reading the key set again.
RefreshOnMiss_Never(i, k, set, net, fetches) == NotFound(NoMatchingKey, set, fetches)

\* PyJWKClient.get_signing_key, no key of the set matches the kid: the set
\* is fetched again (refresh) and searched once more.
RefreshOnMiss(i, k, set, net, fetches) ==
    LET s == fetch_data(i, net) IN
    IF ~s.held THEN NotFound(ConnectionError, s, fetches \o <<"failed">>)
    ELSE IF k \in s.keys THEN Found(i, k, s, fetches \o <<"ok">>)
    ELSE NotFound(NoMatchingKey, s, fetches \o <<"ok">>)

\* PyJWKClient.get_signing_key(kid) of the client for issuer i that holds set.
PyJWKClient_get_signing_key(i, k, set, net) ==
    IF set.held
    THEN IF k \in set.keys THEN Found(i, k, set, <<>>)
         ELSE RefreshOnMiss(i, k, set, net, <<>>)
    ELSE
      LET s == fetch_data(i, net) IN
      IF ~s.held THEN NotFound(ConnectionError, s, <<"failed">>)
      ELSE IF k \in s.keys THEN Found(i, k, s, <<"ok">>)
      ELSE RefreshOnMiss(i, k, s, net, <<"ok">>)

\* The object line 35 constructs: the id tells one construction from another.
NewClient(issuer, id) == [uri |-> PyJWKClient(issuer).uri, id |-> id]

\* Mutant: a client is constructed and stored on every call.
CacheInsert_Always(clients, sets, issuer) ==
    [clients |-> [i \in DOMAIN clients \cup {issuer} |->
                    IF i = issuer THEN NewClient(issuer, Len(sets) + 1) ELSE clients[i]],
     sets |-> Append(sets, NoSet)]

\* Mutant: storing a client drops every other entry of the cache.
CacheInsert_Single(clients, sets, issuer) ==
    IF issuer \in DOMAIN clients
    THEN [clients |-> clients, sets |-> sets]
    ELSE [clients |-> [i \in {issuer} |-> NewClient(issuer, Len(sets) + 1)],
          sets |-> Append(sets, NoSet)]

\* Lines 32-35: if issuer not in jwks_clients, a client is constructed
\* (holding no key set) and stored under the issuer.
CacheInsert(clients, sets, issuer) ==
    IF issuer \in DOMAIN clients
    THEN [clients |-> clients, sets |-> sets]
    ELSE [clients |-> [i \in DOMAIN clients \cup {issuer} |->
                         IF i = issuer THEN NewClient(issuer, Len(sets) + 1)
                         ELSE clients[i]],
          sets |-> Append(sets, NoSet)]

\* Mutant: a lookup that failed is made once more.
Reraise_Retry(r, i, k, net) ==
    IF r.ok THEN r
    ELSE LET again == PyJWKClient_get_signing_key(i, k, r.set, net) IN
         [again EXCEPT !.fetches = r.fetches \o again.fetches]

\* Lines 43-45: whatever the lookup r raised is logged and raised again.
Reraise(r, i, k, net) == r

KeyResult(r, clients, sets) ==
    [ok |-> r.ok, key |-> r.key, err |-> r.err, fetches |-> r.fetches,
     clients |-> clients, sets |-> sets]

\* Mutant: the issuer is read, and its client stored, before the kid is
\* looked at.
GetSigningKey_Eager(token, clients, sets, net) ==
    IF ~Decodable(token)
    THEN KeyResult(NotFound(NotEnoughSegments, NoSet, <<>>), clients, sets)
    ELSE
      LET j == token[1].jwt
          kid == Get(j.kid)
          issuer == Get(j.iss)
      IN
      IF MissingIss(issuer)
      THEN KeyResult(NotFound(Exc("PyJWTError", MsgNoIss), NoSet, <<>>), clients, sets)
      ELSE
        LET c == CacheInsert(clients, sets, issuer.v)
            id == c.clients[issuer.v].id
        IN
        IF MissingKid(kid)
        THEN KeyResult(NotFound(Exc("PyJWTError", MsgNoKid), NoSet, <<>>), c.clients, c.sets)
        ELSE
          LET r == Reraise(PyJWKClient_get_signing_key(issuer.v, kid.v, c.sets[id], net),
                           issuer.v, kid.v, net)
          IN KeyResult(r, c.clients, [c.sets EXCEPT ![id] = r.set])

\* Lines 18-45 of a process whose clients hold the key sets `sets`.
GetSigningKey(token, clients, sets, net) ==
    IF ~Decodable(token)
    THEN KeyResult(NotFound(NotEnoughSegments, NoSet, <<>>), clients, sets)
    ELSE
      LET j == token[1].jwt
          kid == Get(j.kid)
      IN
      IF MissingKid(kid)
      THEN KeyResult(NotFound(Exc("PyJWTError", MsgNoKid), NoSet, <<>>), clients, sets)
      ELSE
        LET issuer == Get(j.iss) IN
        IF MissingIss(issuer)
        THEN KeyResult(NotFound(Exc("PyJWTError", MsgNoIss), NoSet, <<>>), clients, sets)
        ELSE
          LET c == CacheInsert(clients, sets, issuer.v)
              id == c.clients[issuer.v].id                       \* line 37
              r == Reraise(PyJWKClient_get_signing_key(issuer.v, kid.v, c.sets[id], net),
                           issuer.v, kid.v, net)
          IN KeyResult(r, c.clients, [c.sets EXCEPT ![id] = r.set])

\* The outcome of an invocation: the policy returned, what key resolution
\* did, and the process it leaves behind.
Served(policy, k) ==
    [kind |-> "return", policy |-> policy, resolved |-> k.ok, key |-> k.key,
     fetches |-> k.fetches, clients |-> k.clients, sets |-> k.sets]

\* Lines 81-133 for the value `raw` found as the token.
Serve(raw, resource, clients, sets, net) ==
    IF raw = <<>>
    THEN Served(generate_policy(Str("user"), "Deny", resource, [error |-> MsgTokenMissing]),
                KeyResult(NotFound(Exc("", ""), NoSet, <<>>), clients, sets))
    ELSE
      LET token == Normalize(raw)
          k == GetSigningKey(token, clients, sets, net)
      IN
      IF ~k.ok THEN Served(Deny(k.err, resource, clients, <<>>).policy, k)
      ELSE
        LET j == token[1].jwt
            d == jwt_decode(j, k.key, Algorithms, Audience)
        IN
        IF ~d.ok THEN Served(Deny(d.err, resource, clients, <<>>).policy, k)
        ELSE Served(BuildDecision(j, resource, clients, <<>>).policy, k)

\* A token of issuer i that is valid in every respect, signed with the key
\* the issuer publishes under kid k.
SignedToken(i, k) ==
    [GoodToken EXCEPT !.kid = Str(k), !.iss = Str(i),
                      !.sig = [alg |-> "ES256", key |-> KeyOf(i, k)]]

\* What the handler may find as the token: nothing, a string that is no
\* token, a valid token of any issuer and kid, and tokens of issuer 1 that
\* are forged, expired, without kid, without iss, or with a null
\* user_metadata.
RawTokens ==
    {<<>>, Word(<<"x">>)}
      \cup {<<JwtEl(SignedToken(i, k))>> : i \in Issuers, k \in Kids}
      \cup {<<JwtEl(j)>> : j \in {ForgedToken,
                                  [GoodToken EXCEPT !.expired = TRUE],
                                  [GoodToken EXCEPT !.kid = Absent],
                                  [GoodToken EXCEPT !.iss = Absent],
                                  [GoodToken EXCEPT !.user_metadata = PyNone]}}

GoodResource == DeriveResource(Str(GoodArn))

\* The endpoints as a lookup finds them.
Net == [up |-> reachable, pub |-> published]

\* The (issuer, kid) a raw token names, if it names both.
Names(raw) ==
    IF Decodable(Normalize(raw))
         /\ Normalize(raw)[1].jwt.kid.t = "str" /\ Normalize(raw)[1].jwt.iss.t = "str"
    THEN <<Normalize(raw)[1].jwt.iss.v, Normalize(raw)[1].jwt.kid.v>>
    ELSE NoPair

\* The last fetch of a lookup failed.
FetchFailed(fetches) == fetches # <<>> /\ fetches[Len(fetches)] = "failed"

\* One invocation of lambda_handler in a process whose clients keep their
\* key sets between invocations.
Authorize ==
    /\ last.kind = "idle"
    /\ \E raw \in RawTokens :
         \E out \in {Serve(raw, GoodResource, jwks_clients, jwk_set_cache, Net)} :
           /\ jwks_clients' = out.clients
           /\ jwk_set_cache' = out.sets
           /\ previous' = IF out.resolved THEN Names(raw)
                          ELSE IF FetchFailed(out.fetches) THEN <<Names(raw)[1], 0>>
                          ELSE NoPair
           /\ last' = [kind |-> "return", raw |-> raw, clients |-> jwks_clients,
                       sets |-> jwk_set_cache, net |-> Net, prev |-> previous,
                       out |-> out]
    /\ UNCHANGED <<reachable, published, threads, appVars>>

\* The issuer retires the keys it lists and lists the key k instead.
Rotate(i, k) ==
    /\ last.kind = "idle"
    /\ published[i] # {k}
    /\ published' = [published EXCEPT ![i] = {k}]
    /\ UNCHANGED <<authVars, jwk_set_cache, previous, threads, appVars>>

\* The lifespan of the key set held by the client of issuer i has passed.
Expire(i) ==
    /\ last.kind = "idle"
    /\ i \in DOMAIN jwks_clients
    /\ jwk_set_cache[jwks_clients[i].id].held
    /\ jwk_set_cache' = [jwk_set_cache EXCEPT ![jwks_clients[i].id] = NoSet]
    /\ UNCHANGED <<authVars, published, previous, threads, appVars>>

\* The issuers whose endpoint fails and recovers, whose keys rotate and
\* whose held key set expires during a run; the others stay as they are.
Unsteady == {1}

CacheNext ==
    \/ Authorize
    \/ Respond
    \/ \E i \in Unsteady : EndpointDown(i)
    \/ \E i \in Unsteady : EndpointUp(i)
    \/ \E i \in Unsteady, k \in Kids : Rotate(i, k)
    \/ \E i \in Unsteady : Expire(i)

CacheSpec == Init /\ [][CacheNext]_vars

\* ------------------------------------------------------ claims C11 - C16

\* The (issuer, kid) of the last invocation's token.
LastIssuer == Names(last.raw)[1]
LastKid == Names(last.raw)[2]
NamesPair == Returned /\ Names(last.raw) # NoPair

\* The key set the client of issuer i held when the last invocation began.
SetBefore(i) ==
    IF i \in DOMAIN last.clients THEN last.sets[last.clients[i].id] ELSE NoSet

\* C11 as stated: within one process, resolving the signing key a second
\* time for the same (issuer, kid), a kid the issuer lists, returns the same
\* key material and fetches {issuer}/.well-known/jwks.json no second time.
C11_NoSecondFetch ==
    (NamesPair /\ last.prev = Names(last.raw) /\ LastKid \in last.net.pub[LastIssuer])
      => /\ last.out.fetches = <<>>
         /\ last.out.resolved
         /\ last.out.key = KeyOf(LastIssuer, LastKid)

\* C11 as amended: the client of an issuer is reused, and a resolution of
\* (issuer, kid) while that client still holds a key set listing the kid
\* returns that key without any fetch.
C11_NoFetchWhileHeld ==
    (NamesPair /\ LastKid \in SetBefore(LastIssuer).keys)
      => /\ last.out.fetches = <<>>
         /\ last.out.resolved
         /\ last.out.key = KeyOf(LastIssuer, LastKid)
         /\ jwks_clients[LastIssuer] = last.clients[LastIssuer]
         /\ jwk_set_cache[jwks_clients[LastIssuer].id] = SetBefore(LastIssuer)

\* The same pair is resolved a second time from the held key set.
C11_Witness ==
    /\ NamesPair
    /\ last.prev = Names(last.raw)
    /\ LastKid \in SetBefore(LastIssuer).keys
    /\ last.out.fetches = <<>>

\* C12: no step removes or replaces an entry of jwks_clients; an entry for
\* an issuer appears only in an invocation whose token names that issuer,
\* and such an invocation leaves the issuer with an entry.
C12_EntriesKept ==
    [][/\ \A i \in DOMAIN jwks_clients :
            i \in DOMAIN jwks_clients' /\ jwks_clients'[i] = jwks_clients[i]
       /\ \A i \in DOMAIN jwks_clients' \ DOMAIN jwks_clients :
            last.kind = "idle" /\ last'.kind = "return" /\ Names(last'.raw)[1] = i
       /\ (last.kind = "idle" /\ last'.kind = "return" /\ Names(last'.raw) # NoPair)
            => Names(last'.raw)[1] \in DOMAIN jwks_clients']_vars

\* A denied invocation names an issuer that was cached, with the other
\* issuer cached as well.
C12_Witness ==
    /\ NamesPair
    /\ last.out.policy.Effect = "Deny"
    /\ LastIssuer \in DOMAIN last.clients
    /\ DOMAIN jwks_clients = Issuers

\* The client of the token's issuer held a key set without the token's
\* kid, a kid the issuer lists now: the key set was populated before the
\* issuer rotated to this kid.
Rotated ==
    /\ NamesPair
    /\ SetBefore(LastIssuer).held
    /\ LastKid \notin SetBefore(LastIssuer).keys
    /\ LastKid \in last.net.pub[LastIssuer]

\* C13 as stated: after the rotation a token signed with the new key is
\* denied in every later invocation of the process.
C13_DeniedUntilRestart == Rotated => last.out.policy.Effect = "Deny"

\* What a process started now would answer to the last invocation's token.
FreshDecision == Serve(last.raw, GoodResource, <<>>, <<>>, last.net).policy

\* C13 as amended: a kid the held key set lacks makes the client fetch the
\* key set again; while the endpoint answers the new key is resolved by
\* that one fetch and the token is decided as in a fresh process, and it is
\* denied (the fetch failed) only while the endpoint does not answer.
C13_RefreshedOnNewKid ==
    Rotated =>
      IF LastIssuer \in last.net.up
      THEN /\ last.out.fetches = <<"ok">>
           /\ last.out.resolved
           /\ last.out.key = KeyOf(LastIssuer, LastKid)
           /\ jwk_set_cache[jwks_clients[LastIssuer].id] = Held(last.net.pub[LastIssuer])
           /\ last.out.policy = FreshDecision
           /\ last.raw = <<JwtEl(SignedToken(LastIssuer, LastKid))>>
                => last.out.policy.Effect = "Allow"
      ELSE /\ last.out.fetches = <<"failed">>
           /\ last.out.policy.Effect = "Deny"
           /\ last.out.policy.context.error = ConnectionError.msg

\* A token signed with the new key is allowed by the process that held the
\* old key set.
C13_Witness ==
    /\ Rotated
    /\ last.raw = <<JwtEl(SignedToken(LastIssuer, LastKid))>>
    /\ last.out.policy.Effect = "Allow"

\* The last invocation's token is one the handler is meant to allow: signed
\* with the key its issuer lists under its kid, at an endpoint that
\* answers, with aud "authenticated", a sub, and not expired.
ValidNow ==
    /\ NamesPair
    /\ LastIssuer \in last.net.up
    /\ LastKid \in last.net.pub[LastIssuer]
    /\ LET j == Normalize(last.raw)[1].jwt IN
         /\ j.alg = "ES256"
         /\ j.sig = [alg |-> "ES256", key |-> KeyOf(LastIssuer, LastKid)]
         /\ j.aud = Str("authenticated")
         /\ TruthyAtom(j.sub)
         /\ ~j.expired

\* C15: every error kind ends in Deny, and the invocation that follows one
\* whose key-discovery fetch failed for issuer I allows a fully valid token
\* of I once I's endpoint answers again.
C15_FailClosedNotPoisoned ==
    Returned =>
      /\ (last.raw # <<>> /\ ~last.out.resolved) => last.out.policy.Effect = "Deny"
      /\ FetchFailed(last.out.fetches) => last.out.policy.Effect = "Deny"
      /\ (last.out.resolved
            /\ ~jwt_decode(Normalize(last.raw)[1].jwt, last.out.key, Algorithms, Audience).ok)
           => last.out.policy.Effect = "Deny"
      /\ (ValidNow /\ last.prev = <<LastIssuer, 0>>) => last.out.policy.Effect = "Allow"

\* The same, for the tokens whose user_metadata is not null.
NotPoisoned ==
    (ValidNow /\ Normalize(last.raw)[1].jwt.user_metadata # PyNone)
      => last.out.policy.Effect = "Allow"

\* C16: a fetch that failed is the last fetch of its invocation, and the
\* invocation ends with Deny, reporting the failed fetch.
C16_NoRetry ==
    Returned =>
      LET f == last.out.fetches IN
      /\ \A n \in 1..Len(f) : f[n] = "failed" => n = Len(f)
      /\ FetchFailed(f) =>
           /\ ~last.out.resolved
           /\ last.out.policy.Effect = "Deny"
           /\ last.out.policy.context.error = ConnectionError.msg

\* The only fetch of an invocation failed; and a client holding a key set
\* fetched again for an unknown kid and that fetch failed.
C16_Witness ==
    /\ NamesPair
    /\ last.out.fetches = <<"failed">>
    /\ SetBefore(LastIssuer).held

\* ============================================ invocations side by side

(***************************************************************************)
(* get_signing_key run by several threads of one process, step by step     *)
(* where it touches jwks_clients: the membership test of line 32, the      *)
(* store of line 35 and the read of line 37.  The endpoints do not change  *)
(* during a run, so that a lookup's result does not depend on the key set  *)
(* its client holds and get_signing_key_from_jwt above is exact.           *)
(***************************************************************************)

RaceTokens ==
    {<<JwtEl(ForgedToken)>>, <<JwtEl([GoodToken EXCEPT !.kid = Absent])>>}
      \cup {<<JwtEl(SignedToken(i, 1))>> : i \in Issuers}
      \cup {<<JwtEl(SignedToken(1, NumKids))>>}

\* A thread that answered with policy; miss tells whether it stored a client.
Done(raw, issuer, miss, policy) ==
    [pc |-> "done", raw |-> raw, issuer |-> issuer, miss |-> miss, policy |-> policy]

\* A thread inside get_signing_key for the token raw of issuer.
At(pc, raw, issuer, miss) == [pc |-> pc, raw |-> raw, issuer |-> issuer, miss |-> miss]

\* Mutant: the store rebinds the cache to a dictionary of the one client.
StoreClient_Single(clients, issuer) == [i \in {issuer} |-> PyJWKClient(issuer)]

\* Line 35: jwks_clients[issuer] = PyJWKClient(jwks_url).
StoreClient(clients, issuer) ==
    [i \in DOMAIN clients \cup {issuer} |->
       IF i = issuer THEN PyJWKClient(issuer) ELSE clients[i]]

\* Lines 81-29: the token is taken, normalized, and its kid and iss read;
\* nothing of this touches the process.
Begin(t) ==
    /\ threads[t].pc = "idle"
    /\ \E raw \in RaceTokens :
         LET rejected == Serve(raw, GoodResource, <<>>, <<>>, Net) IN
         threads' = [threads EXCEPT ![t] =
                       IF Names(raw) = NoPair
                       THEN Done(raw, 0, FALSE, rejected.policy)
                       ELSE At("check", raw, Names(raw)[1], FALSE)]
    /\ UNCHANGED <<authVars, keyVars, appVars>>

\* Line 32: if issuer not in jwks_clients.
Check(t) ==
    /\ threads[t].pc = "check"
    /\ LET me == threads[t]
           miss == me.issuer \notin DOMAIN jwks_clients
       IN threads' = [threads EXCEPT ![t] =
                        At(IF miss THEN "store" ELSE "read", me.raw, me.issuer, miss)]
    /\ UNCHANGED <<authVars, keyVars, appVars>>

\* Lines 33-35.
Store(t) ==
    /\ threads[t].pc = "store"
    /\ jwks_clients' = StoreClient(jwks_clients, threads[t].issuer)
    /\ threads' = [threads EXCEPT ![t].pc = "read"]
    /\ UNCHANGED <<reachable, last, keyVars, appVars>>

\* Lines 37-133: the client is read from the cache (a KeyError if the
\* issuer has no entry), the key looked up and the token verified.
ReadAndVerify(t) ==
    /\ threads[t].pc = "read"
    /\ LET me == threads[t]
           token == Normalize(me.raw)
           j == token[1].jwt
       IN
       threads' = [threads EXCEPT ![t] =
         IF me.issuer \notin DOMAIN jwks_clients
         THEN Done(me.raw, me.issuer, me.miss,
                   Deny(Exc("KeyError", ""), GoodResource, <<>>, <<>>).policy)
         ELSE
           LET r == get_signing_key_from_jwt(jwks_clients[me.issuer], j.kid, reachable) IN
           IF ~r.ok
           THEN Done(me.raw, me.issuer, me.miss,
                     Deny(r.err, GoodResource, <<>>, <<>>).policy)
           ELSE
             LET d == jwt_decode(j, r.key, Algorithms, Audience) IN
             Done(me.raw, me.issuer, me.miss,
                  IF d.ok THEN BuildDecision(j, GoodResource, <<>>, <<>>).policy
                  ELSE Deny(d.err, GoodResource, <<>>, <<>>).policy)]
    /\ UNCHANGED <<authVars, keyVars, appVars>>

\* The policy is returned.
Finish(t) ==
    /\ threads[t].pc = "done"
    /\ threads' = [threads EXCEPT ![t] = Waiting]
    /\ UNCHANGED <<authVars, keyVars, appVars>>

RaceInit ==
    /\ ColdStart
    /\ reachable \in {Issuers, Issuers \ Unsteady}
    /\ published = [i \in Issuers |-> Published(i)]
    /\ users = [u \in UserIds |-> NoRow]

RaceNext ==
    \E t \in Threads :
      \/ Begin(t)
      \/ Check(t)
      \/ Store(t)
      \/ ReadAndVerify(t)
      \/ Finish(t)

RaceSpec == RaceInit /\ [][RaceNext]_vars

\* What the token raw gets from a process that runs nothing else.
Alone(raw) == Serve(raw, GoodResource, <<>>, <<>>, Net).policy

\* C14: under every interleaving of the threads' test, store and read of
\* jwks_clients, a thread that reads the cache finds an entry for its
\* issuer, the issuer of a thread past its store has exactly the one client
\* for its URL, and every thread answers as it would when run alone.
C14_RaceBenign ==
    \A t \in Threads :
      /\ threads[t].pc = "read" =>
           /\ threads[t].issuer \in DOMAIN jwks_clients
           /\ jwks_clients[threads[t].issuer] = PyJWKClient(threads[t].issuer)
      /\ threads[t].pc = "done" =>
           /\ threads[t].policy = Alone(threads[t].raw)
           /\ threads[t].issuer # 0 =>
                /\ threads[t].issuer \in DOMAIN jwks_clients
                /\ jwks_clients[threads[t].issuer] = PyJWKClient(threads[t].issuer)

\* Two threads both found the same issuer missing, both stored a client for
\* it, and both were allowed.
C14_Witness ==
    \E t, u \in Threads :
      /\ t # u
      /\ threads[t].pc = "done" /\ threads[u].pc = "done"
      /\ threads[t].miss /\ threads[u].miss
      /\ threads[t].issuer = threads[u].issuer
      /\ threads[t].policy.Effect = "Allow" /\ threads[u].policy.Effect = "Allow"

\* ------------------------------------------- the handlers behind the authorizer

\* create_post, create_comment, create_share, get_profile and
\* get_tarot_reading serve a caller; update_credits is run on a schedule.
Handlers ==
    {"create_post", "create_comment", "create_share", "get_profile",
     "get_tarot_reading"}

Authorizer(u) == [t |-> "dict", user_id |-> u]
RequestContext(a) == [t |-> "dict", authorizer |-> a]

\* event['requestContext']: absent, null, without an authorizer, with a null
\* one, and with one whose user_id is absent, null, empty or a user's id.
RequestContexts ==
    {Absent, PyNone, RequestContext(Absent), RequestContext(PyNone)}
      \cup {RequestContext(Authorizer(u)) : u \in Nullable(UserIds \cup {""})}

\* An AttributeError raised by .get on None.
Raised == [t |-> "raise"]

\* event.get('requestContext', {}).get('authorizer', {}).get('user_id'): the
\* default {} stands in for a missing key only, so a null requestContext or
\* authorizer is None and the next .get raises.
UserIdOf(ctx) ==
    IF ctx.t = "None" THEN Raised
    ELSE IF ctx.t = "absent" THEN PyNone
    ELSE IF ctx.authorizer.t = "None" THEN Raised
    ELSE IF ctx.authorizer.t = "absent" THEN PyNone
    ELSE Get(ctx.authorizer.user_id)

\* The body of a request: JSON with the fields the handler needs, JSON without
\* them, or no JSON at all.
RequestBodies == {"ok", "incomplete", "invalid"}

\* An event: its request context, its body, and whether pathParameters names
\* a post_id.
Requests == [ctx : RequestContexts, body : RequestBodies, path : BOOLEAN]

\* An invocation in handler h: where it is, the user_id it read, the status
\* it returns and the exception behind a 500, the id of the row it inserted
\* (or the number of rows it updated), and the statements it executed.
InCall(pc, h, ctx, user_id, status, id, stmts) ==
    [pc |-> pc, h |-> h, ctx |-> ctx, user_id |-> user_id,
     status |-> status, error |-> "", id |-> id, stmts |-> stmts]

\* The invocation c returns with a status.
Answer(c, status) == [c EXCEPT !.pc = "done", !.status = status]

\* An exception reaches one of the handler's except clauses, which all
\* answer 500.
Fail(c, error) == [c EXCEPT !.pc = "done", !.status = 500, !.error = error]

\* What a handler answers to a body before it opens the database: 0 to go on.
\* get_profile reads no body; get_tarot_reading has no handler for a
\* JSONDecodeError of its own, so that its except ValueError answers 500.
Validate(h, req) ==
    IF h = "get_profile" THEN 0
    ELSE IF h = "create_comment" /\ ~req.path THEN 400
    ELSE IF req.body = "invalid"
         THEN (IF h = "get_tarot_reading" THEN 500 ELSE 400)
    ELSE IF req.body = "incomplete" THEN 400
    ELSE 0

\* The table a handler inserts into.
Table(h) ==
    IF h = "create_post" THEN "posts"
    ELSE IF h = "create_comment" THEN "comments"
    ELSE "shared_readings"

\* A handler is entered with an event and runs up to its first use of the
\* database: the identity, then the path and the body.  update_credits reads
\* nothing of its event.
Receive(t, h, req) ==
    /\ calls[t].pc = "idle"
    /\ LET uid == UserIdOf(req.ctx)
           c == InCall("db", h, req.ctx, uid, 0, 0, <<>>)
       IN calls' = [calls EXCEPT ![t] =
            IF h = "update_credits" THEN c
            ELSE IF uid = Raised THEN Fail(c, "AttributeError")
            ELSE IF ~TruthyAtom(uid) THEN Answer(c, 401)
            ELSE IF Validate(h, req) = 500 THEN Fail(c, "JSONDecodeError")
            ELSE IF Validate(h, req) # 0 THEN Answer(c, Validate(h, req))
            ELSE c]
    /\ UNCHANGED <<authVars, keyVars, threads, users, rows, queue>>

\* The WHERE clause of update_credits.
Matches_Inclusive(credit) == credit <= 3
Matches(credit) == credit < 3

\* A row of public.users, by its credit.
Row(credit) == [t |-> "row", credit |-> credit]

\* UPDATE public.users SET credit = 3 WHERE credit < 3, and its rowcount.
Reset(us) ==
    [u \in DOMAIN us |->
       IF us[u].t = "row" /\ Matches(us[u].credit) THEN Row(3) ELSE us[u]]
Matched(us) ==
    Cardinality({u \in DOMAIN us : us[u].t = "row" /\ Matches(us[u].credit)})

\* The credit check of get_tarot_reading on the row it selected.
HasCredit_NonNegative(row) == ~(row.t = "norow" \/ row.credit < 0)
HasCredit(row) == ~(row.t = "norow" \/ row.credit < 1)

\* What a failure to reach the queue makes of the response: it is logged and
\* the handler goes on to its 201.
AfterQueue_Fail(sent) == IF sent THEN 201 ELSE 500
AfterQueue(sent) == 201

\* The handler's use of the database, from get_db_connection to the last
\* statement of its cursor.  The connection may fail, and so may any
\* statement, with a psycopg2.Error: fail is the statement that fails, 0 for
\* none.  A connection kept from an earlier invocation is first probed with
\* SELECT 1, which is not listed among the handler's statements.  The credit of a row that
\* get_profile inserts is the column's default, which the schema sets.
Query(t) ==
    /\ calls[t].pc = "db"
    /\ \E conn \in BOOLEAN, fail \in 0..2, credit \in 0..MaxCredit :
         LET c == calls[t]
             u == c.user_id.v
             Ran(list) == [c EXCEPT !.stmts = list]
         IN
         IF ~conn THEN
           /\ fail = 0 /\ credit = 0
           /\ calls' = [calls EXCEPT ![t] = Fail(c, "psycopg2.Error")]
           /\ UNCHANGED <<users, rows>>
         ELSE IF c.h \in {"create_post", "create_comment", "create_share"} THEN
           /\ fail \in 0..1 /\ credit = 0
           /\ IF fail = 1 THEN
                /\ calls' = [calls EXCEPT ![t] =
                     Fail(Ran(<<"INSERT">>), "psycopg2.Error")]
                /\ UNCHANGED <<users, rows>>
              ELSE
                /\ Len(rows) < MaxRows
                /\ rows' = Append(rows, [table |-> Table(c.h), user_id |-> u])
                /\ calls' = [calls EXCEPT ![t] =
                     IF c.h = "create_comment"
                     THEN [Ran(<<"INSERT">>) EXCEPT
                             !.pc = "queue", !.id = Len(rows')]
                     ELSE [Answer(Ran(<<"INSERT">>), 201) EXCEPT
                             !.id = Len(rows')]]
                /\ UNCHANGED users
         ELSE IF c.h = "get_profile" THEN
           /\ UNCHANGED rows
           /\ IF fail = 1 THEN
                /\ credit = 0
                /\ calls' = [calls EXCEPT ![t] =
                     Fail(Ran(<<"SELECT">>), "psycopg2.Error")]
                /\ UNCHANGED users
              ELSE IF users[u].t = "row" THEN
                /\ fail = 0 /\ credit = 0
                /\ calls' = [calls EXCEPT ![t] =
                     Answer(Ran(<<"SELECT">>), 200)]
                /\ UNCHANGED users
              ELSE IF fail = 2 THEN
                /\ credit = 0
                /\ calls' = [calls EXCEPT ![t] =
                     Fail(Ran(<<"SELECT", "INSERT">>), "psycopg2.Error")]
                /\ UNCHANGED users
              ELSE
                /\ users' = [users EXCEPT ![u] = Row(credit)]
                /\ calls' = [calls EXCEPT ![t] =
                     Answer(Ran(<<"SELECT", "INSERT">>), 200)]
         ELSE IF c.h = "get_tarot_reading" THEN
           /\ fail \in 0..1 /\ credit = 0
           /\ UNCHANGED <<users, rows>>
           /\ calls' = [calls EXCEPT ![t] =
                IF fail = 1 THEN Fail(Ran(<<"SELECT">>), "psycopg2.Error")
                ELSE IF ~HasCredit(users[u])
                     THEN Answer(Ran(<<"SELECT">>), 402)
                ELSE [Ran(<<"SELECT">>) EXCEPT !.pc = "ai"]]
         ELSE
           /\ fail \in 0..1 /\ credit = 0
           /\ UNCHANGED rows
           /\ IF fail = 1 THEN
                /\ calls' = [calls EXCEPT ![t] =
                     Fail(Ran(<<"UPDATE">>), "psycopg2.Error")]
                /\ UNCHANGED users
              ELSE
                /\ users' = Reset(users)
                /\ calls' = [calls EXCEPT ![t] =
                     [Answer(Ran(<<"UPDATE">>), 200) EXCEPT
                        !.id = Matched(users)]]
    /\ UNCHANGED <<authVars, keyVars, threads, queue>>

\* get_tarot_reading draws its cards, fetches the API key, asks the model and
\* parses its answer.  Missing card data, a missing key, a failed call and an
\* answer that is no JSON all end the invocation with a 500.
Generate(t) ==
    /\ calls[t].pc = "ai"
    /\ \E out \in {"ok", "ValueError", "Exception"} :
         calls' = [calls EXCEPT ![t] =
           IF out = "ok" THEN [@ EXCEPT !.pc = "charge"] ELSE Fail(@, out)]
    /\ UNCHANGED <<authVars, keyVars, threads, users, rows, queue>>

\* UPDATE public.users SET credit = credit - 1 WHERE id = user_id; a failure
\* is logged and the reading is returned all the same.
Charge(t) ==
    /\ calls[t].pc = "charge"
    /\ LET c == calls[t]
           u == c.user_id.v
       IN \E ok \in BOOLEAN :
            /\ users' = IF ok /\ users[u].t = "row"
                        THEN [users EXCEPT ![u] = Row(@.credit - 1)]
                        ELSE users
            /\ calls' = [calls EXCEPT ![t] =
                 Answer([c EXCEPT !.stmts = Append(@, "UPDATE")], 200)]
    /\ UNCHANGED <<authVars, keyVars, threads, rows, queue>>

\* create_comment looks up the queue's URL and sends the message for the
\* comment it inserted; either may fail.
Enqueue(t) ==
    /\ calls[t].pc = "queue"
    /\ LET c == calls[t]
       IN \E url \in BOOLEAN, send \in BOOLEAN :
            /\ ~url => ~send
            /\ queue' = IF url /\ send
                        THEN Append(queue, [comment_id |-> c.id,
                                            user_id |-> c.user_id.v])
                        ELSE queue
            /\ calls' = [calls EXCEPT ![t] =
                 Answer(c, AfterQueue(url /\ send))]
    /\ UNCHANGED <<authVars, keyVars, threads, users, rows>>

\* The response leaves the handler.
Leave(t) ==
    /\ calls[t].pc = "done"
    /\ calls' = [calls EXCEPT ![t] = Waiting]
    /\ UNCHANGED <<authVars, keyVars, threads, users, rows, queue>>

\* One caller at a time, through any of the five handlers.
WriteNext ==
    \/ \E h \in Handlers, req \in Requests : Receive(1, h, req)
    \/ Query(1)
    \/ Generate(1)
    \/ Charge(1)
    \/ Enqueue(1)
    \/ Leave(1)

WriteSpec == Init /\ [][WriteNext]_vars

\* Callers of get_tarot_reading whose request reaches the credit check.
Callers ==
    {req \in Requests :
       TruthyAtom(UserIdOf(req.ctx)) /\ req.body = "ok" /\ req.path}

\* The event of the schedule that runs update_credits.
Scheduled == [ctx |-> Absent, body |-> "ok", path |-> FALSE]

\* A users table with any rows and credits.
CreditInit ==
    /\ ColdStart
    /\ reachable = Issuers
    /\ published = [i \in Issuers |-> Published(i)]
    /\ users \in [UserIds -> {NoRow} \cup {Row(c) : c \in 0..MaxCredit}]

\* Readings and credit resets side by side, each in its own process.
CreditNext ==
    \E t \in Threads :
      \/ \E req \in Callers : Receive(t, "get_tarot_reading", req)
      \/ Receive(t, "update_credits", Scheduled)
      \/ Query(t)
      \/ Generate(t)
      \/ Charge(t)
      \/ Leave(t)

CreditSpec == CreditInit /\ [][CreditNext]_vars

\* ------------------------------------------------- claims on the handlers

\* The event names a caller: requestContext.authorizer.user_id is there and
\* is not empty.
HasUserId(ctx) ==
    /\ ctx.t = "dict"
    /\ ctx.authorizer.t = "dict"
    /\ TruthyAtom(ctx.authorizer.user_id)

\* The invocation whose step this is.
Acting(t) == calls'[t] # calls[t]

\* Claim C17: each of create_post, create_comment, create_share, get_profile
\* and get_tarot_reading answers an event without a user_id (absent or empty)
\* with status 401 and without any database statement, and every row a
\* handler inserts carries the user_id of requestContext.authorizer.
C17_IdentityOnly ==
    [][\A t \in Threads :
         LET c == calls[t]
             d == calls'[t]
         IN
         /\ (Acting(t) /\ c.pc = "idle" /\ d.h \in Handlers /\ ~HasUserId(d.ctx))
              => (d.pc = "done" /\ d.status = 401 /\ d.stmts = <<>>)
         /\ (Acting(t) /\ rows' # rows)
              => /\ HasUserId(c.ctx)
                 /\ rows' = Append(rows, [table |-> Table(c.h),
                                          user_id |-> c.ctx.authorizer.user_id.v])
         /\ (Acting(t) /\ c.pc = "db" /\ c.h = "get_profile" /\ users' # users)
              => /\ HasUserId(c.ctx)
                 /\ \A u \in UserIds :
                      users'[u] # users[u] => u = c.ctx.authorizer.user_id.v
    ]_vars

\* Claim C18: get_tarot_reading goes on to the generation only from a row
\* with credit >= 1 at the check and returns 200 only after the generation
\* succeeded; without a row or with credit < 1 the check answers 402 (500 if
\* the database failed) and leaves the credits alone; the credit changes only
\* in the step after a successful generation, for the caller only and by
\* exactly 1; a failed generation answers 500 and changes no credit.
C18_CreditGate ==
    [][\A t \in Threads :
         LET c == calls[t]
             d == calls'[t]
             u == c.user_id.v
         IN
         (Acting(t) /\ c.pc # "idle" /\ c.h = "get_tarot_reading") =>
           /\ (d.pc = "done" /\ d.status = 200) => c.pc = "charge"
           /\ d.pc = "charge" => c.pc = "ai"
           /\ d.pc = "ai"
                => (c.pc = "db" /\ users[u].t = "row" /\ users[u].credit >= 1)
           /\ (c.pc = "db" /\ (users[u].t = "norow" \/ users[u].credit < 1))
                => /\ d.pc = "done"
                   /\ d.status = 402 \/ (d.status = 500 /\ d.error = "psycopg2.Error")
                   /\ users' = users
           /\ (c.pc = "ai" /\ d.pc = "done") => (d.status = 500 /\ users' = users)
           /\ users' # users
                => /\ c.pc = "charge" /\ d.status = 200
                   /\ users[u].t = "row"
                   /\ users' = [users EXCEPT ![u] = Row(users[u].credit - 1)]
    ]_vars

C18_Witness ==
    \E t \in Threads :
      /\ calls[t].pc = "done" /\ calls[t].h = "get_tarot_reading"
      /\ calls[t].status = 200
      /\ calls[t].stmts = <<"SELECT", "UPDATE">>
      /\ users[calls[t].user_id.v] = Row(0)

\* Claim C19: a successful run of update_credits sets every credit below 3
\* to 3 and leaves every other row as it is, so that every row has credit
\* >= 3 afterwards; updated_users is the number of rows that were below 3;
\* a second run on the resulting table changes nothing and reports 0.
C19_ResetBelowThree ==
    [][\A t \in Threads :
         LET c == calls[t]
             d == calls'[t]
             Below == {u \in UserIds : users[u].t = "row" /\ users[u].credit < 3}
         IN
         (Acting(t) /\ c.pc = "db" /\ c.h = "update_credits") =>
           \/ d.status = 500 /\ users' = users
           \/ /\ d.status = 200
              /\ \A u \in UserIds :
                   /\ u \in Below => users'[u] = Row(3)
                   /\ u \notin Below => users'[u] = users[u]
                   /\ users'[u].t = "row" => users'[u].credit >= 3
              /\ d.id = Cardinality(Below)
              /\ Reset(users') = users' /\ Matched(users') = 0
    ]_vars

C19_Witness ==
    \E t \in Threads :
      /\ calls[t].pc = "done" /\ calls[t].h = "update_credits"
      /\ calls[t].status = 200 /\ calls[t].id = 1
      /\ users["user-123"] = Row(3)
      /\ users["user-456"] = Row(MaxCredit)

\* The comment that an invocation of create_comment inserted is stored.
Stored(c) ==
    /\ c.id \in 1..Len(rows)
    /\ rows[c.id] = [table |-> "comments", user_id |-> c.user_id.v]

\* Claim C20: create_comment sends the queue message of a comment only after
\* it inserted the comment's row; whether or not the queue's URL is found and
\* the message is sent, it returns 201 with the id of the comment, which stays
\* stored; a failed insert returns 500 and sends no message.
C20_QueueAfterInsert ==
    [][/\ SubSeq(rows', 1, Len(rows)) = rows
       /\ \A t \in Threads :
            LET c == calls[t]
                d == calls'[t]
            IN
            (Acting(t) /\ c.pc # "idle" /\ c.h = "create_comment") =>
              /\ queue' # queue
                   => /\ c.pc = "queue" /\ Stored(c)
                      /\ queue' = Append(queue, [comment_id |-> c.id,
                                                 user_id |-> c.user_id.v])
              /\ c.pc = "queue"
                   => /\ Stored(c)
                      /\ d.pc = "done" /\ d.status = 201 /\ d.id = c.id
                      /\ rows' = rows
              /\ (c.pc = "db" /\ rows' = rows)
                   => (d.pc = "done" /\ d.status = 500 /\ queue' = queue)
              /\ (c.pc = "db" /\ rows' # rows) => d.pc = "queue"
    ]_vars

C20_Witness ==
    \E t \in Threads :
      /\ calls[t].pc = "done" /\ calls[t].h = "create_comment"
      /\ calls[t].status = 201 /\ Stored(calls[t])
      /\ queue = <<>>

\* Claim C21: whatever readings of one user and credit resets run side by
\* side, the stored credit of every user stays >= 0.
C21_CreditNeverNegative ==
    \A u \in UserIds :
      users[u].t = "row" => users[u].credit >= 0

\* The last invocation was rejected before an issuer was resolved: its token
\* was missing or undecodable, or its header had no kid or its payload no iss.
RejectedEarly == Returned /\ Names(last.raw) = NoPair

\* Claim C22: an invocation rejected for a missing token, an undecodable
\* token, a header without kid or a payload without iss is denied, adds no
\* entry to jwks_clients and fetches no key set; an entry for an issuer is
\* added only by an invocation whose token carries a kid and that iss, and
\* such an invocation leaves the entry behind whether or not its key is
\* found and its signature verifies.
C22_EarlyRejectionKeepsCache ==
    Returned =>
      /\ RejectedEarly
           => /\ last.out.policy.Effect = "Deny"
              /\ last.out.clients = last.clients
              /\ last.out.sets = last.sets
              /\ last.out.fetches = <<>>
      /\ \A i \in DOMAIN last.out.clients \ DOMAIN last.clients :
           NamesPair /\ i = LastIssuer
      /\ NamesPair => LastIssuer \in DOMAIN last.out.clients

\* A token of issuer 1 without kid is rejected in a process that holds a
\* client of issuer 2 only, and holds that client only afterwards.
C22_Witness ==
    /\ RejectedEarly
    /\ last.raw = <<JwtEl([GoodToken EXCEPT !.kid = Absent])>>
    /\ DOMAIN last.clients = {2}
    /\ DOMAIN last.out.clients = {2}

====
